---- MODULE Spec2Model ----
(***************************************************************************)
(* FASTQProcessor of analiz_FASTQC.py: the FASTQ record reader and the     *)
(* statistics accumulator, with its three summary views.                   *)
(*                                                                         *)
(* A character is its Unicode code point, a string a sequence of code      *)
(* points, a file the sequence of lines readlines() returns (each line     *)
(* keeps its "\n"; only the last line of a file may lack it).              *)
(***************************************************************************)
EXTENDS Integers, Sequences, FiniteSets, TLC

\* Longest file, in lines, that the environment hands to readlines().
MaxLines == 8

---------------------------------------------------------------------------
(* The lines the environment may put at each position of a 4-line block.   *)

\* "@A\n"
IdLines == { <<64, 65, 10>> }

\* "ACGT\n", "ACGTN\n", " a tg\n", "N\n", "\n", "ẗ\n" (U+1E97)
SeqLines ==
    { <<65, 67, 71, 84, 10>>, <<65, 67, 71, 84, 78, 10>>, <<32, 97, 32, 116, 103, 10>>,
      <<78, 10>>, <<10>>, <<7831, 10>> }

\* "+\n"
SepLines == { <<43, 10>> }

\* "!!!!\n", "IIIII\n", "~" (no end of line), "\n", " ! !\n", "A\n"
QualLines ==
    { <<33, 33, 33, 33, 10>>, <<73, 73, 73, 73, 73, 10>>, <<126>>, <<10>>,
      <<32, 33, 32, 33, 10>>, <<65, 10>> }

\* The lines a file may hold at 0-based position p.
LinesAt(p) ==
    CASE p % 4 = 0 -> IdLines
      [] p % 4 = 1 -> SeqLines
      [] p % 4 = 2 -> SepLines
      [] OTHER     -> QualLines

---------------------------------------------------------------------------
(* str methods and built-ins the processor uses.                           *)

\* str.isspace() of one character: what str.strip() removes.
IsSpace(c) ==
    c \in ({9, 10, 11, 12, 13, 28, 29, 30, 31, 32, 133, 160, 5760}
           \cup (8192..8202) \cup {8232, 8233, 8239, 8287, 12288})

RECURSIVE lstrip(_)
lstrip(s) == IF s # <<>> /\ IsSpace(Head(s)) THEN lstrip(Tail(s)) ELSE s

RECURSIVE rstrip(_)
rstrip(s) ==
    IF s # <<>> /\ IsSpace(s[Len(s)]) THEN rstrip(SubSeq(s, 1, Len(s) - 1)) ELSE s

\* str.strip()
strip(s) == rstrip(lstrip(s))

\* str.upper() of one character: the full Unicode case mapping, which maps
\* some single characters to several. Covered: the ASCII letters, and every
\* character outside a-z whose mapping contains A, T, G or C (U+1E97 -> T
\* U+0308, U+1E9A -> A U+02BE, U+FB05 and U+FB06 -> S T), and U+00DF -> S S.
upper_char(c) ==
    CASE c \in 97..122        -> << c - 32 >>
      [] c = 7831             -> << 84, 776 >>
      [] c = 7834             -> << 65, 702 >>
      [] c \in {64261, 64262} -> << 83, 84 >>
      [] c = 223              -> << 83, 83 >>
      [] OTHER                -> << c >>

\* str.upper()
RECURSIVE upper(_)
upper(s) == IF s = <<>> THEN <<>> ELSE upper_char(Head(s)) \o upper(Tail(s))

\* sum(), min(), max() of a list of integers (min and max of a non-empty one)
RECURSIVE SumSeq(_)
SumSeq(s) == IF s = <<>> THEN 0 ELSE Head(s) + SumSeq(Tail(s))

MinSeq(s) == CHOOSE x \in { s[k] : k \in DOMAIN s } : \A k \in DOMAIN s : x <= s[k]

MaxSeq(s) == CHOOSE x \in { s[k] : k \in DOMAIN s } : \A k \in DOMAIN s : x >= s[k]

Pow10(d) == IF d = 1 THEN 10 ELSE 100

\* f"{num / den:.<d>f}" as the integer of its digits (num/den scaled by 10^d,
\* rounded to nearest, a tie to the even digit). This is the float's own
\* rounding as long as a tie num/den is a binary fraction, that is for every
\* den below 20 at d = 1 and below 40 at d = 2.
fmt_fixed(num, den, d) ==
    LET n == num * Pow10(d)
        q == n \div den
        r == n - q * den
    IN  IF 2 * r < den THEN q
        ELSE IF 2 * r > den THEN q + 1
        ELSE IF q % 2 = 0 THEN q ELSE q + 1

---------------------------------------------------------------------------
(* The accumulator's fields, and parse_fastq's locals and position.        *)

VARIABLES
    sequences_count,    \* self.sequences_count
    total_length,       \* self.total_length
    sequence_lengths,   \* self.sequence_lengths
    quality_scores,     \* self.quality_scores
    base_counts,        \* self.base_counts: a defaultdict(int), as the function on its keys
    lines,              \* parse_fastq's lines: what readlines() has returned so far
    i,                  \* parse_fastq's loop index
    pc,                 \* "idle" | "read" (inside the with block) | "loop"
    ret,                \* how the last call of the processor ended
    prior               \* history: sequences_count when parse_fastq was last called

vars ==
    << sequences_count, total_length, sequence_lengths, quality_scores, base_counts,
       lines, i, pc, ret, prior >>

acc == << sequences_count, total_length, sequence_lengths, quality_scores, base_counts >>

\* defaultdict(int) with no key
EmptyCounts == [k \in {} |-> 0]

\* The processor as one object.
self ==
    [ sequences_count  |-> sequences_count,
      total_length     |-> total_length,
      sequence_lengths |-> sequence_lengths,
      quality_scores   |-> quality_scores,
      base_counts      |-> base_counts ]

\* 'ATGC', in the order get_base_composition walks it
ATGC == << 65, 84, 71, 67 >>

Bases == { ATGC[k] : k \in 1..4 }

\* d[b] += 1 on a defaultdict(int)
Incr(d, b) ==
    [ k \in DOMAIN d \cup {b} |->
        IF k = b THEN (IF b \in DOMAIN d THEN d[b] + 1 ELSE 1) ELSE d[k] ]

\* d[b] read on a defaultdict(int): a missing key is inserted with 0
Touch(d, b) == [ k \in DOMAIN d \cup {b} |-> IF k \in DOMAIN d THEN d[k] ELSE 0 ]

\* the loop of _count_bases over an already uppercased string
RECURSIVE count_loop(_, _)
count_loop(d, u) ==
    IF u = <<>> THEN d
    ELSE count_loop(IF Head(u) \in Bases THEN Incr(d, Head(u)) ELSE d, Tail(u))

\* _count_bases: the new base_counts
count_bases(d, sequence) == count_loop(d, upper(sequence))

\* Mutant: scores below zero are clamped to zero.
analyze_quality_Clamped(qs, quality_string) ==
    qs \o [ k \in 1..Len(quality_string) |->
               IF quality_string[k] < 33 THEN 0 ELSE quality_string[k] - 33 ]

\* _analyze_quality: the new quality_scores
analyze_quality(qs, quality_string) ==
    qs \o [ k \in 1..Len(quality_string) |-> quality_string[k] - 33 ]

\* Mutant: an off-by-one test that drops a complete block ending the file.
CompleteBlock_OffByOne(idx, n) == idx + 4 < n

\* the test that a whole block starts at 0-based line i of n lines
CompleteBlock(idx, n) == idx + 3 < n

---------------------------------------------------------------------------
(* The summary views. A returned text is the record of the values it shows. *)

NoData(view) == [ kind |-> "nodata", view |-> view ]

Raises(view) == [ kind |-> "raise", view |-> view ]

\* Mutant: no guard on an empty accumulator, so the mean divides by zero.
get_basic_stats_Unguarded(s) ==
    IF s.sequences_count = 0 \/ s.sequence_lengths = <<>> THEN Raises("basic")
    ELSE [ kind  |-> "stats", view |-> "basic",
           count |-> s.sequences_count,
           avg   |-> fmt_fixed(s.total_length, s.sequences_count, 1),
           min   |-> MinSeq(s.sequence_lengths),
           max   |-> MaxSeq(s.sequence_lengths),
           total |-> s.total_length ]

get_basic_stats(s) ==
    IF s.sequences_count = 0 THEN NoData("basic")
    ELSE IF s.sequence_lengths = <<>> THEN Raises("basic")
    ELSE [ kind  |-> "stats", view |-> "basic",
           count |-> s.sequences_count,
           avg   |-> fmt_fixed(s.total_length, s.sequences_count, 1),
           min   |-> MinSeq(s.sequence_lengths),
           max   |-> MaxSeq(s.sequence_lengths),
           total |-> s.total_length ]

\* Mutant: the guard tests the record count, not the list of scores.
get_quality_stats_GuardOnCount(s) ==
    IF s.sequences_count = 0 THEN NoData("quality")
    ELSE IF s.quality_scores = <<>> THEN Raises("quality")
    ELSE [ kind |-> "stats", view |-> "quality",
           avg  |-> fmt_fixed(SumSeq(s.quality_scores), Len(s.quality_scores), 2),
           min  |-> MinSeq(s.quality_scores),
           max  |-> MaxSeq(s.quality_scores),
           n    |-> Len(s.quality_scores) ]

get_quality_stats(s) ==
    IF s.quality_scores = <<>> THEN NoData("quality")
    ELSE [ kind |-> "stats", view |-> "quality",
           avg  |-> fmt_fixed(SumSeq(s.quality_scores), Len(s.quality_scores), 2),
           min  |-> MinSeq(s.quality_scores),
           max  |-> MaxSeq(s.quality_scores),
           n    |-> Len(s.quality_scores) ]

\* sum(self.base_counts.values())
SumCounts(d) == SumSeq([ k \in 1..4 |-> IF ATGC[k] \in DOMAIN d THEN d[ATGC[k]] ELSE 0 ])

\* base_counts after the first k lookups of the loop over 'ATGC'
RECURSIVE TouchFirst(_, _)
TouchFirst(d, k) == IF k = 0 THEN d ELSE Touch(TouchFirst(d, k - 1), ATGC[k])

\* Mutant: the percentages are taken of total_length.
get_base_composition_OverTotalLength(s) ==
    IF DOMAIN s.base_counts = {}
    THEN [ val |-> NoData("composition"), base_counts |-> s.base_counts ]
    ELSE LET total_bases == s.total_length
             after == TouchFirst(s.base_counts, 4)
         IN  [ val |->
                 [ kind |-> "stats", view |-> "composition",
                   rows |-> [ k \in 1..4 |->
                       [ base  |-> ATGC[k],
                         count |-> after[ATGC[k]],
                         pct   |-> IF total_bases > 0
                                   THEN fmt_fixed(after[ATGC[k]] * 100, total_bases, 1)
                                   ELSE 0 ] ] ],
               base_counts |-> after ]

\* get_base_composition: the text it returns and the base_counts it leaves
get_base_composition(s) ==
    IF DOMAIN s.base_counts = {}
    THEN [ val |-> NoData("composition"), base_counts |-> s.base_counts ]
    ELSE LET total_bases == SumCounts(s.base_counts)
             after == TouchFirst(s.base_counts, 4)
         IN  [ val |->
                 [ kind |-> "stats", view |-> "composition",
                   rows |-> [ k \in 1..4 |->
                       [ base  |-> ATGC[k],
                         count |-> after[ATGC[k]],
                         pct   |-> IF total_bases > 0
                                   THEN fmt_fixed(after[ATGC[k]] * 100, total_bases, 1)
                                   ELSE 0 ] ] ],
               base_counts |-> after ]

---------------------------------------------------------------------------
(* The calls.                                                              *)

Init ==
    /\ sequences_count = 0
    /\ total_length = 0
    /\ sequence_lengths = <<>>
    /\ quality_scores = <<>>
    /\ base_counts = EmptyCounts
    /\ lines = <<>>
    /\ i = 0
    /\ pc = "idle"
    /\ ret = [ op |-> "__init__", val |-> [ kind |-> "return" ] ]
    /\ prior = 0

\* Mutant: the reset forgets the base counter.
Reset_KeepsBaseCounts ==
    /\ sequences_count' = 0
    /\ total_length' = 0
    /\ sequence_lengths' = <<>>
    /\ quality_scores' = <<>>
    /\ base_counts' = base_counts

\* Mutant: the reset forgets the record counter.
Reset_KeepsCount ==
    /\ sequences_count' = sequences_count
    /\ total_length' = 0
    /\ sequence_lengths' = <<>>
    /\ quality_scores' = <<>>
    /\ base_counts' = EmptyCounts

\* lines 35-39
Reset ==
    /\ sequences_count' = 0
    /\ total_length' = 0
    /\ sequence_lengths' = <<>>
    /\ quality_scores' = <<>>
    /\ base_counts' = EmptyCounts

\* parse_fastq is called; the file opens.
ParseOpen ==
    /\ pc = "idle"
    /\ Reset
    /\ lines' = <<>>
    /\ i' = 0
    /\ pc' = "read"
    /\ ret' = [ op |-> "parse_fastq", val |-> [ kind |-> "running" ] ]
    /\ prior' = sequences_count

\* Mutant: the file is opened before the statistics are reset.
ParseOpenFails_BeforeReset ==
    /\ pc = "idle"
    /\ lines' = <<>>
    /\ i' = 0
    /\ pc' = "idle"
    /\ ret' = [ op |-> "parse_fastq", val |-> [ kind |-> "raise" ] ]
    /\ prior' = sequences_count
    /\ UNCHANGED acc

\* parse_fastq is called; opener() raises (no such file, no permission).
ParseOpenFails ==
    /\ pc = "idle"
    /\ Reset
    /\ lines' = <<>>
    /\ i' = 0
    /\ pc' = "idle"
    /\ ret' = [ op |-> "parse_fastq", val |-> [ kind |-> "raise" ] ]
    /\ prior' = sequences_count

\* readlines() takes one more line from the file.
ReadLine(l) ==
    /\ pc = "read"
    /\ Len(lines) < MaxLines
    /\ lines # <<>> => lines[Len(lines)][Len(lines[Len(lines)])] = 10
    /\ lines' = Append(lines, l)
    /\ UNCHANGED << acc, i, pc, ret, prior >>

\* readlines() meets the end of the file and returns; the file is closed.
ReadEOF ==
    /\ pc = "read"
    /\ pc' = "loop"
    /\ i' = 0
    /\ UNCHANGED << acc, lines, ret, prior >>

\* readlines() raises (a read error, bad gzip content); the file is closed
\* and the exception leaves parse_fastq.
ReadFails ==
    /\ pc = "read"
    /\ lines' = <<>>
    /\ pc' = "idle"
    /\ ret' = [ op |-> "parse_fastq", val |-> [ kind |-> "raise" ] ]
    /\ UNCHANGED << acc, i, prior >>

\* Mutant: total_length grows by the length of the untrimmed line.
LoopIngest_RawLength ==
    /\ pc = "loop"
    /\ i < Len(lines)
    /\ CompleteBlock(i, Len(lines))
    /\ LET sequence_line == strip(lines[i + 2])
           quality_line  == strip(lines[i + 4])
           seq_len       == Len(sequence_line)
       IN  /\ sequences_count' = sequences_count + 1
           /\ total_length' = total_length + Len(lines[i + 2])
           /\ sequence_lengths' = Append(sequence_lengths, seq_len)
           /\ base_counts' = count_bases(base_counts, sequence_line)
           /\ quality_scores' = analyze_quality(quality_scores, quality_line)
    /\ i' = i + 4
    /\ UNCHANGED << lines, pc, ret, prior >>

\* One pass of the for loop over a complete block: the record is ingested.
LoopIngest ==
    /\ pc = "loop"
    /\ i < Len(lines)
    /\ CompleteBlock(i, Len(lines))
    /\ LET sequence_line == strip(lines[i + 2])
           quality_line  == strip(lines[i + 4])
           seq_len       == Len(sequence_line)
       IN  /\ sequences_count' = sequences_count + 1
           /\ total_length' = total_length + seq_len
           /\ sequence_lengths' = Append(sequence_lengths, seq_len)
           /\ base_counts' = count_bases(base_counts, sequence_line)
           /\ quality_scores' = analyze_quality(quality_scores, quality_line)
    /\ i' = i + 4
    /\ UNCHANGED << lines, pc, ret, prior >>

\* One pass of the for loop over a partial block: nothing is done.
LoopSkip ==
    /\ pc = "loop"
    /\ i < Len(lines)
    /\ ~ CompleteBlock(i, Len(lines))
    /\ i' = i + 4
    /\ UNCHANGED << acc, lines, pc, ret, prior >>

\* The range is exhausted: parse_fastq returns.
LoopEnd ==
    /\ pc = "loop"
    /\ i >= Len(lines)
    /\ pc' = "idle"
    /\ ret' = [ op |-> "parse_fastq", val |-> [ kind |-> "return" ] ]
    /\ UNCHANGED << acc, lines, i, prior >>

GetBasicStats ==
    /\ pc = "idle"
    /\ ret' = [ op |-> "get_basic_stats", val |-> get_basic_stats(self) ]
    /\ UNCHANGED << acc, lines, i, pc, prior >>

GetQualityStats ==
    /\ pc = "idle"
    /\ ret' = [ op |-> "get_quality_stats", val |-> get_quality_stats(self) ]
    /\ UNCHANGED << acc, lines, i, pc, prior >>

GetBaseComposition ==
    /\ pc = "idle"
    /\ LET r == get_base_composition(self)
       IN  /\ ret' = [ op |-> "get_base_composition", val |-> r.val ]
           /\ base_counts' = r.base_counts
    /\ UNCHANGED << sequences_count, total_length, sequence_lengths, quality_scores,
                    lines, i, pc, prior >>

View == GetBasicStats \/ GetQualityStats \/ GetBaseComposition

Next ==
    \/ ParseOpen
    \/ ParseOpenFails
    \/ \E l \in LinesAt(Len(lines)) : ReadLine(l)
    \/ ReadEOF
    \/ ReadFails
    \/ LoopIngest
    \/ LoopSkip
    \/ LoopEnd
    \/ GetBasicStats
    \/ GetQualityStats
    \/ GetBaseComposition

Spec == Init /\ [][Next]_vars

---------------------------------------------------------------------------
(* What a file holds, read off the file itself.                            *)

NBlocks(F) == Len(F) \div 4

\* the trimmed sequence and quality lines of the k-th block, k from 1
SeqOf(F, k) == strip(F[4 * k - 2])

QualOf(F, k) == strip(F[4 * k])

LengthsOf(F, n) == [ k \in 1..n |-> Len(SeqOf(F, k)) ]

RECURSIVE ScoresOf(_, _)
ScoresOf(F, n) ==
    IF n = 0 THEN <<>>
    ELSE ScoresOf(F, n - 1) \o [ j \in 1..Len(QualOf(F, n)) |-> QualOf(F, n)[j] - 33 ]

\* how many characters of u lie in S
CountIn(u, S) == Cardinality({ j \in DOMAIN u : u[j] \in S })

RECURSIVE TallyOf(_, _, _)
TallyOf(F, n, b) ==
    IF n = 0 THEN 0 ELSE TallyOf(F, n - 1, b) + CountIn(upper(SeqOf(F, n)), {b})

\* the count base_counts holds for b
Tally(d, b) == IF b \in DOMAIN d THEN d[b] ELSE 0

\* the processor a single parse of F leaves, starting from nothing
FreshParse(F) ==
    LET n == NBlocks(F)
    IN  [ sequences_count  |-> n,
          total_length     |-> SumSeq(LengthsOf(F, n)),
          sequence_lengths |-> LengthsOf(F, n),
          quality_scores   |-> ScoresOf(F, n),
          base_counts      |->
              [ b \in { c \in Bases : TallyOf(F, n, c) > 0 } |-> TallyOf(F, n, b) ] ]

ViewOps == { "get_basic_stats", "get_quality_stats", "get_base_composition" }

Abs(x) == IF x < 0 THEN -x ELSE x

---------------------------------------------------------------------------
\* C1: after parse_fastq has read a file of N complete 4-line blocks and M < 4
\* trailing lines, sequences_count is N, and the lengths, the total, the
\* quality scores and the base counts are those of the N blocks alone: the
\* trailing lines add nothing.
C1_TrailingLinesIgnored ==
    pc = "idle" =>
        LET n == Len(lines) \div 4
        IN  /\ sequences_count = n
            /\ sequence_lengths = LengthsOf(lines, n)
            /\ total_length = SumSeq(LengthsOf(lines, n))
            /\ quality_scores = ScoresOf(lines, n)
            /\ \A b \in Bases : Tally(base_counts, b) = TallyOf(lines, n, b)
            /\ DOMAIN base_counts \subseteq Bases

\* parse_fastq has returned from a file of one block and three trailing lines
C1_Witness ==
    /\ pc = "idle"
    /\ ret = [ op |-> "parse_fastq", val |-> [ kind |-> "return" ] ]
    /\ Len(lines) = 7
    /\ sequences_count = 1
    /\ total_length > 0

\* C2: whatever was parsed and viewed before, after parse_fastq the processor
\* is the one a single parse of that file leaves, and the three views return
\* what they return on it: nothing of an earlier run is mixed in, and a
\* second parse of the same file gives the same outputs.
C2_ParseDependsOnlyOnFile ==
    pc = "idle" =>
        LET f == FreshParse(lines)
        IN  /\ ret.op = "parse_fastq" => self = f
            /\ get_basic_stats(self) = get_basic_stats(f)
            /\ get_quality_stats(self) = get_quality_stats(f)
            /\ get_base_composition(self).val = get_base_composition(f).val
            /\ ret.op = "get_basic_stats" => ret.val = get_basic_stats(f)
            /\ ret.op = "get_quality_stats" => ret.val = get_quality_stats(f)
            /\ ret.op = "get_base_composition" => ret.val = get_base_composition(f).val

\* a file of one record has been parsed by a processor that held two records
C2_Witness ==
    /\ pc = "idle"
    /\ ret = [ op |-> "parse_fastq", val |-> [ kind |-> "return" ] ]
    /\ prior = 2
    /\ sequences_count = 1
    /\ DOMAIN base_counts # {}

\* C3: with nothing ingested (a new processor, a file with no complete
\* block, a failed parse) each view returns its "no data" text and none raises.
C3_EmptyViewsReportNoData ==
    (pc = "idle" /\ Len(lines) < 4) =>
        /\ get_basic_stats(self) = NoData("basic")
        /\ get_quality_stats(self) = NoData("quality")
        /\ get_base_composition(self).val = NoData("composition")
        /\ ret.op \in ViewOps => ret.val.kind = "nodata"

\* get_basic_stats has answered on a file of three lines, parsed by a
\* processor that held data
C3_Witness ==
    /\ pc = "idle"
    /\ Len(lines) = 3
    /\ prior > 0
    /\ ret = [ op |-> "get_basic_stats", val |-> NoData("basic") ]

\* C4: when parse_fastq ends by raising (the open or the read failed), the
\* call is over and nothing is in the accumulator, whatever it held before.
C4_FailedParseLeavesNothing ==
    (ret.op = "parse_fastq" /\ ret.val.kind = "raise") =>
        /\ pc = "idle"
        /\ sequences_count = 0
        /\ total_length = 0
        /\ sequence_lengths = <<>>
        /\ quality_scores = <<>>
        /\ DOMAIN base_counts = {}

\* parse_fastq has raised on a processor that held two records
C4_Witness ==
    /\ ret = [ op |-> "parse_fastq", val |-> [ kind |-> "raise" ] ]
    /\ prior = 2
    /\ sequences_count = 0

\* C5: total_length is the sum of sequence_lengths in every state, between
\* two ingests too; and with records the mean get_basic_stats shows is
\* total_length / sequences_count to its one decimal.
C5_TotalIsSumOfLengths ==
    /\ total_length = SumSeq(sequence_lengths)
    /\ (pc = "idle" /\ sequences_count > 0) =>
          LET b == get_basic_stats(self)
          IN  /\ b.kind = "stats"
              /\ b.total = SumSeq(sequence_lengths)
              /\ 2 * Abs(10 * total_length - b.avg * sequences_count) <= sequences_count
    /\ (ret.op = "get_basic_stats" /\ ret.val.kind = "stats") =>
          2 * Abs(10 * SumSeq(sequence_lengths) - ret.val.avg * sequences_count)
              <= sequences_count

\* the first of two records is ingested, the second not yet
C5_Witness ==
    /\ pc = "loop"
    /\ i = 4
    /\ Len(lines) = 8
    /\ sequences_count = 1
    /\ total_length = 4

\* the letters b and its lowercase in the first n trimmed sequence lines
RECURSIVE LetterTallyOf(_, _, _)
LetterTallyOf(F, n, b) ==
    IF n = 0 THEN 0 ELSE LetterTallyOf(F, n - 1, b) + CountIn(SeqOf(F, n), {b, b + 32})

RECURSIVE QualCharsOf(_, _)
QualCharsOf(F, n) == IF n = 0 THEN 0 ELSE QualCharsOf(F, n - 1) + Len(QualOf(F, n))

\* C6: of the characters of the trimmed sequence lines ingested so far, each
\* A, T, G, C and each a, t, g, c has added one to its base's count and no
\* other character has added to any count, while every character has added
\* one to total_length; so the four counts together never exceed
\* total_length.
C6_OnlyATGCTallied ==
    /\ \A b \in Bases :
          Tally(base_counts, b) = LetterTallyOf(lines, sequences_count, b)
    /\ total_length = SumSeq(LengthsOf(lines, sequences_count))
    /\ SumCounts(base_counts) <= total_length

\* C7: quality_scores holds, for each character c of each trimmed quality
\* line ingested so far and in order, the score c - 33, unclamped; their
\* number is the number of those characters, whatever the sequence lengths,
\* and it is the number get_quality_stats shows, with the least and the
\* greatest of them.
C7_QualityScoresAreOrdMinus33 ==
    /\ quality_scores = ScoresOf(lines, sequences_count)
    /\ Len(quality_scores) = QualCharsOf(lines, sequences_count)
    /\ (ret.op = "get_quality_stats" /\ ret.val.kind = "stats") =>
          /\ ret.val.n = QualCharsOf(lines, NBlocks(lines))
          /\ ret.val.min = MinSeq(ScoresOf(lines, NBlocks(lines)))
          /\ ret.val.max = MaxSeq(ScoresOf(lines, NBlocks(lines)))

\* get_quality_stats shows four scores, from -1 to 93, of two records whose
\* sequences hold another number of characters
C7_Witness ==
    /\ ret.op = "get_quality_stats"
    /\ ret.val.kind = "stats"
    /\ sequences_count = 2
    /\ ret.val.n = 4
    /\ ret.val.min = -1
    /\ ret.val.max = 93
    /\ total_length # 4

\* C8: with a key in base_counts, get_base_composition shows A, T, G, C in
\* that order, each with its count (0 for a base never seen) and, to one
\* decimal, the percentage count / (sum of the four counts) * 100; the sum is
\* positive, the four counts add up to it, so the percentages add up to 100
\* (as shown, to within the rounding of each).
C8_CompositionOverTalliedSum ==
    /\ (pc = "idle" /\ DOMAIN base_counts # {}) =>
          get_base_composition(self).val.kind = "stats"
    /\ (ret.op = "get_base_composition" /\ ret.val.kind = "stats") =>
          LET rows  == ret.val.rows
              n     == NBlocks(lines)
              total == SumSeq([ k \in 1..4 |-> TallyOf(lines, n, ATGC[k]) ])
          IN  /\ DOMAIN rows = 1..4
              /\ \A k \in 1..4 :
                    /\ rows[k].base = ATGC[k]
                    /\ rows[k].count = TallyOf(lines, n, ATGC[k])
                    /\ 2 * Abs(1000 * rows[k].count - rows[k].pct * total) <= total
              /\ total > 0
              /\ SumSeq([ k \in 1..4 |-> rows[k].count ]) = total
              /\ Abs(SumSeq([ k \in 1..4 |-> rows[k].pct ]) - 1000) <= 2

\* the composition of " a tg": three bases of four characters, C shown with 0
C8_Witness ==
    /\ ret.op = "get_base_composition"
    /\ ret.val.kind = "stats"
    /\ sequences_count = 1
    /\ total_length = 4
    /\ ret.val.rows[1].count = 1
    /\ ret.val.rows[1].pct = 333
    /\ ret.val.rows[4].count = 0
    /\ ret.val.rows[4].pct = 0

\* C9: a call of a view leaves sequences_count, total_length,
\* sequence_lengths, quality_scores and base_counts, keys included, as they
\* were.
C9_ViewsDoNotMutate == [][View => UNCHANGED acc]_vars

\* C10 as stated: with no record ingested the three views return "no data",
\* and with a record ingested none of them does.
C10_PopulatedViewsAllCompute ==
    pc = "idle" =>
        /\ sequences_count = 0 =>
              /\ get_basic_stats(self).kind = "nodata"
              /\ get_quality_stats(self).kind = "nodata"
              /\ get_base_composition(self).val.kind = "nodata"
        /\ sequences_count > 0 =>
              /\ get_basic_stats(self).kind = "stats"
              /\ get_quality_stats(self).kind = "stats"
              /\ get_base_composition(self).val.kind = "stats"

\* C10 as amended: with no record ingested every field is empty and the three
\* views return "no data"; with a record ingested get_basic_stats computes,
\* get_quality_stats computes if a trimmed quality line of the file has a
\* character and returns "no data" if none has, and get_base_composition
\* computes if an uppercased trimmed sequence line of the file has an A, T, G
\* or C and returns "no data" if none has.
C10_TwoStates ==
    pc = "idle" =>
        LET n == NBlocks(lines)
            b == get_basic_stats(self)
            q == get_quality_stats(self)
            c == get_base_composition(self).val
        IN  /\ sequences_count = 0 =>
                  /\ n = 0
                  /\ total_length = 0
                  /\ sequence_lengths = <<>>
                  /\ quality_scores = <<>>
                  /\ DOMAIN base_counts = {}
                  /\ b.kind = "nodata" /\ q.kind = "nodata" /\ c.kind = "nodata"
            /\ sequences_count > 0 =>
                  /\ n > 0
                  /\ b.kind = "stats"
                  /\ q.kind = IF \E k \in 1..n : QualOf(lines, k) # <<>>
                              THEN "stats" ELSE "nodata"
                  /\ c.kind = IF \E k \in 1..n : CountIn(upper(SeqOf(lines, k)), Bases) > 0
                              THEN "stats" ELSE "nodata"

\* one record is ingested, of sequence "N" and an empty quality line:
\* get_quality_stats has returned "no data" and base_counts has no key
C10_Witness ==
    /\ pc = "idle"
    /\ sequences_count = 1
    /\ total_length = 1
    /\ ret = [ op |-> "get_quality_stats", val |-> NoData("quality") ]
    /\ DOMAIN base_counts = {}

\* C11: in every state sequences_count is the number of entries of
\* sequence_lengths, so get_basic_stats, whose only guard is
\* sequences_count = 0, never takes min or max of an empty list and never
\* divides by zero: it returns "no data" or the statistics, and never raises.
C11_CountIsNumberOfLengths ==
    /\ sequences_count = Len(sequence_lengths)
    /\ get_basic_stats(self).kind = IF sequence_lengths = <<>> THEN "nodata" ELSE "stats"
    /\ ret.op = "get_basic_stats" => ret.val.kind # "raise"

\* get_basic_stats has computed over two records, parsed by a processor that
\* held one record before
C11_Witness ==
    /\ pc = "idle"
    /\ prior = 1
    /\ sequences_count = 2
    /\ ret.op = "get_basic_stats"
    /\ ret.val.kind = "stats"
    /\ ret.val.min = 4
    /\ ret.val.max = 5

====
